---- MODULE Spec2Model ----
(***************************************************************************)
(* The trade-analytics computations of PerformanceChart                    *)
(* (src/src/components/PerformanceChart.tsx): the four useMemo bodies      *)
(* equityCurve, symbolPerformance, dailyPnL and roeDistribution, over the  *)
(* props trades: TradeEntry[] and performance: PerformanceMetrics | null.  *)
(*                                                                         *)
(* JavaScript numbers are modelled as exact rationals [n, d] (d > 0, in    *)
(* lowest terms), so (actual_return_pct / 100) * balance is computed as    *)
(* written and never rounded.  An optional property that is absent is a    *)
(* record without that field; reading it gives undefined.                  *)
(***************************************************************************)
EXTENDS Integers, Sequences, FiniteSets, TLC

VARIABLES trades, performance, timeZone, computed, closedTrades, equityCurve,
          symbolPerformance, dailyPnL, roeDistribution, firstRender

(* The Index page: its state, the loadTraders calls that await their
   response (each with the selectedTrader its closure holds), and two history
   variables: what the last step did, and who set selectedTrader last. *)
VARIABLES traders, selectedTrader, loading, requests, lastEvent, selectedBy

indexVars == <<traders, selectedTrader, loading, requests, lastEvent, selectedBy>>

(* The CreateTrader dialog: its state (createLoading is its loading), the
   createTrader call that awaits its response, with the config it was given,
   and two history variables: what the last step did, and how many times it
   called onTraderCreated. *)
VARIABLES open, createLoading, newSymbol, config, pendingCreate, createEvent,
          notified

createVars == <<open, createLoading, newSymbol, config, pendingCreate,
                createEvent, notified>>

chartVars == <<trades, performance, timeZone, computed, closedTrades,
               equityCurve, symbolPerformance, dailyPnL, roeDistribution,
               firstRender>>

(* TraderDashboard: its traderId prop and its state beside trades and
   performance (dashboardLoading is its loading), the intervals that run, by
   the traderId of their loadTraderData, the loadTraderData calls and the
   start or stop call that await their response, and three history
   variables: the traderId the data on display was requested for, whether
   data requested for the current traderId has been applied since traderId
   last changed, and what the last step did. *)
VARIABLES traderId, isRunning, dashboardLoading, timers, dataRequests,
          pendingStartStop, dataOf, appliedCurrent, dashboardEvent

dashboardVars == <<traderId, isRunning, dashboardLoading, timers, dataRequests,
                   pendingStartStop, dataOf, appliedCurrent, dashboardEvent>>

viewVars == <<timeZone, computed, closedTrades, equityCurve, symbolPerformance,
              dailyPnL, roeDistribution, firstRender>>

(* The state outside PerformanceChart, outside Index, outside CreateTrader
   and outside TraderDashboard. *)
pageVars == <<indexVars, createVars, dashboardVars>>
outsideIndex == <<chartVars, createVars, dashboardVars>>
outsideCreateTrader == <<chartVars, indexVars, dashboardVars>>
outsideDashboard == <<viewVars, indexVars, createVars>>

(* firstRender is a history variable: the props and the views of the first
   render, and whether a render on other props has followed it. *)
vars == <<trades, performance, timeZone, computed, closedTrades, equityCurve,
          symbolPerformance, dailyPnL, roeDistribution, firstRender, pageVars>>

(* The longest trade list a check draws. *)
MaxTrades == 3

-----------------------------------------------------------------------------
(* Numbers *)

Abs(x) == IF x < 0 THEN -x ELSE x

RECURSIVE GCD(_, _)
GCD(a, b) == IF b = 0 THEN a ELSE GCD(b, a % b)

(* NaN, the number that arithmetic on a non-number yields; it is the one
   value with denominator 0, and every sum, difference, product and quotient
   that has it as an operand is NaN again. *)
NaN == [n |-> 0, d |-> 0]

(* The rational n/d in lowest terms with a positive denominator. *)
Rat(n, d) ==
    IF d = 0 THEN NaN
    ELSE LET s == IF d < 0 THEN -1 ELSE 1
             g == GCD(Abs(n), Abs(d))
         IN  [n |-> (s * n) \div g, d |-> (s * d) \div g]

Num(i) == [n |-> i, d |-> 1]
Zero == Num(0)
RatAdd(a, b) == Rat(a.n * b.d + b.n * a.d, a.d * b.d)
RatSub(a, b) == Rat(a.n * b.d - b.n * a.d, a.d * b.d)
RatMul(a, b) == Rat(a.n * b.n, a.d * b.d)
RatDiv(a, b) == Rat(a.n * b.d, a.d * b.n)
RatLe(a, b) == a.n * b.d <= b.n * a.d

-----------------------------------------------------------------------------
(* Values of the API types *)

(* performance: PerformanceMetrics | null *)
NULL == [null |-> TRUE]

(* Reading a property: an absent one is undefined. *)
Has(obj, field) == field \in DOMAIN obj

(* The types are erased at run time: a record of the API's JSON may carry a
   string where TradeEntry declares a number.  Such a record lists the
   property in nonNumeric, beside the string it carries. *)
NonNumeric(obj, field) == Has(obj, "nonNumeric") /\ field \in obj.nonNumeric

(* JavaScript truthiness of an optional number: undefined and 0 are falsy;
   a string that is not empty is truthy. *)
TruthyNumber(obj, field) ==
    /\ Has(obj, field)
    /\ IF NonNumeric(obj, field) THEN obj[field] # "" ELSE obj[field] # 0

(* The operand of an arithmetic operator: ToNumber of a string that is not a
   numeric literal is NaN. *)
ToNumber(obj, field) ==
    IF NonNumeric(obj, field) THEN NaN ELSE Num(obj[field])

(* x || 0 for an optional number. *)
OrZero(obj, field) == IF TruthyNumber(obj, field) THEN obj[field] ELSE 0

(* JavaScript truthiness of an optional string: undefined and "" are falsy. *)
TruthyString(obj, field) == Has(obj, field) /\ obj[field] # ""

(* ISO timestamps as the API sends them, and new Date(s).getTime() of each,
   in milliseconds counted from 2024-01-31T00:00:00Z. *)
DateParse ==
    [s \in {"2024-01-31T09:00:00Z", "2024-01-31T15:00:00Z",
            "2024-01-31T21:00:00Z", "2024-02-01T09:00:00Z"} |->
        CASE s = "2024-01-31T09:00:00Z" -> 9 * 3600000
          [] s = "2024-01-31T15:00:00Z" -> 15 * 3600000
          [] s = "2024-01-31T21:00:00Z" -> 21 * 3600000
          [] s = "2024-02-01T09:00:00Z" -> 33 * 3600000]

(* new Date(s) of a string that does not parse is an Invalid Date, whose
   getTime() is NaN. *)
ParsesAsDate(s) == s \in DOMAIN DateParse

GetTime(s) == DateParse[s]

(* The process's local time zone is timeZone hours east of UTC.
   new Date(s).toDateString() names the local calendar day of s; days are
   counted from 2024-01-31. *)
LocalDay(ms, zone) == (ms + zone * 3600000) \div (24 * 3600000)

DayName(day) ==
    CASE day = -1 -> "Tue Jan 30 2024"
      [] day = 0 -> "Wed Jan 31 2024"
      [] day = 1 -> "Thu Feb 01 2024"
      [] day = 2 -> "Fri Feb 02 2024"

ToDateString(s, zone) ==
    IF ParsesAsDate(s) THEN DayName(LocalDay(GetTime(s), zone))
    ELSE "Invalid Date"

(* new Date(dateString).getTime(): local midnight of the named day. *)
DateStringTime(name, zone) ==
    LET day == CHOOSE d \in -1..2 : DayName(d) = name
    IN  day * 24 * 3600000 - zone * 3600000

-----------------------------------------------------------------------------
(* equityCurve *)

(* trades.filter(trade => trade.trade_status !== 'OPEN') *)
NotOpen(trade) == trade.trade_status # "OPEN"

(* Mutants of the filter: one keeps every trade, one keeps the trades with a
   realized return. *)
FilterNotOpen_KeepAll(ts) == ts
HasReturn(trade) == Has(trade, "actual_return_pct")
FilterNotOpen_ByReturn(ts) == SelectSeq(ts, HasReturn)

FilterNotOpen(ts) == SelectSeq(ts, NotOpen)

(* The comparator of the sort: a.timestamp - b.timestamp in milliseconds.
   With an Invalid Date on either side the difference is NaN, which sort
   takes as +0. *)
CompareTimestamp(a, b) ==
    IF ParsesAsDate(a.timestamp) /\ ParsesAsDate(b.timestamp)
    THEN GetTime(a.timestamp) - GetTime(b.timestamp)
    ELSE 0

(* A comparator that answers 0 for an element against two elements it tells
   apart is not a consistent comparator, and the order sort leaves is then
   implementation-defined: any permutation of the array. *)
Reorderings(s) ==
    {[i \in DOMAIN s |-> s[p[i]]] :
        p \in {q \in [DOMAIN s -> DOMAIN s] :
                  \A i, j \in DOMAIN s : q[i] = q[j] => i = j}}

TimestampsComparable(ts) ==
    \/ \A i \in DOMAIN ts : ParsesAsDate(ts[i].timestamp)
    \/ \A i, j \in DOMAIN ts : CompareTimestamp(ts[i], ts[j]) = 0

(* Array.prototype.sort is stable: an element goes after every element that
   does not compare greater than it. *)
(* Mutant: an unstable sort, which puts an element before its equals. *)
RECURSIVE InsertByTimestamp_Unstable(_, _)
InsertByTimestamp_Unstable(sorted, x) ==
    IF sorted = <<>> THEN <<x>>
    ELSE LET last == sorted[Len(sorted)]
         IN  IF CompareTimestamp(last, x) < 0
             THEN Append(sorted, x)
             ELSE Append(InsertByTimestamp_Unstable(
                             SubSeq(sorted, 1, Len(sorted) - 1), x), last)

RECURSIVE InsertByTimestamp(_, _)
InsertByTimestamp(sorted, x) ==
    IF sorted = <<>> THEN <<x>>
    ELSE LET last == sorted[Len(sorted)]
         IN  IF CompareTimestamp(last, x) <= 0
             THEN Append(sorted, x)
             ELSE Append(InsertByTimestamp(SubSeq(sorted, 1, Len(sorted) - 1), x), last)

RECURSIVE SortByTimestamp(_)
SortByTimestamp(ts) ==
    IF ts = <<>> THEN <<>>
    ELSE InsertByTimestamp(SortByTimestamp(SubSeq(ts, 1, Len(ts) - 1)), ts[Len(ts)])

ClosedTrades(ts) == SortByTimestamp(FilterNotOpen(ts))

(* Mutant: the current balance taken as the starting balance. *)
StartBalance_Current(perf) == Num(perf.current_balance)

(* performance.current_balance - performance.total_pnl *)
StartBalance(perf) == RatSub(Num(perf.current_balance), Num(perf.total_pnl))

StartPoint(perf) == [time |-> "Start", balance |-> StartBalance(perf), pnl |-> Zero]

(* trade.actual_return_pct ? (trade.actual_return_pct / 100) * balance : 0 *)
TradePnl(trade, balance) ==
    IF TruthyNumber(trade, "actual_return_pct")
    THEN RatMul(RatDiv(ToNumber(trade, "actual_return_pct"), Num(100)), balance)
    ELSE Zero

(* Mutant: a point labelled by its trade's position in the input list. *)
RECURSIVE Replay_LabelByInputPosition(_, _, _)
Replay_LabelByInputPosition(closed, k, perf) ==
    IF k = 0 THEN <<StartPoint(perf)>>
    ELSE LET curve == Replay_LabelByInputPosition(closed, k - 1, perf)
             balance == curve[Len(curve)].balance
             trade == closed[k]
             pnl == TradePnl(trade, balance)
         IN  Append(curve, [time |-> "Trade " \o ToString(trade.trade_id),
                            balance |-> RatAdd(balance, pnl),
                            pnl |-> pnl,
                            symbol |-> trade.symbol,
                            side |-> trade.side])

(* Mutant: every increment a percentage of the starting balance. *)
RECURSIVE Replay_OfPrincipal(_, _, _)
Replay_OfPrincipal(closed, k, perf) ==
    IF k = 0 THEN <<StartPoint(perf)>>
    ELSE LET curve == Replay_OfPrincipal(closed, k - 1, perf)
             balance == curve[Len(curve)].balance
             trade == closed[k]
             pnl == TradePnl(trade, StartBalance(perf))
         IN  Append(curve, [time |-> "Trade " \o ToString(k),
                            balance |-> RatAdd(balance, pnl),
                            pnl |-> pnl,
                            symbol |-> trade.symbol,
                            side |-> trade.side])

(* closedTrades.forEach((trade, index) => ...): the curve after the first k
   closed trades; balance is the balance of the last point. *)
RECURSIVE Replay(_, _, _)
Replay(closed, k, perf) ==
    IF k = 0 THEN <<StartPoint(perf)>>
    ELSE LET curve == Replay(closed, k - 1, perf)
             balance == curve[Len(curve)].balance
             trade == closed[k]
             pnl == TradePnl(trade, balance)
         IN  Append(curve, [time |-> "Trade " \o ToString(k),
                            balance |-> RatAdd(balance, pnl),
                            pnl |-> pnl,
                            symbol |-> trade.symbol,
                            side |-> trade.side])

(* Mutant: no guard on performance; a missing snapshot counts as zero
   balances, so a synthetic Start point is emitted. *)
computeEquityCurve_NoPerformanceGuard(ts, perf) ==
    IF Len(ts) = 0 THEN <<>>
    ELSE LET p == IF perf = NULL THEN [current_balance |-> 0, total_pnl |-> 0]
                  ELSE perf
         IN  Replay(ClosedTrades(ts), Len(ClosedTrades(ts)), p)

(* Mutant: no guard on the length of the list. *)
computeEquityCurve_NoLengthGuard(ts, perf) ==
    IF perf = NULL THEN <<>>
    ELSE Replay(ClosedTrades(ts), Len(ClosedTrades(ts)), perf)

computeEquityCurve(ts, perf) ==
    IF Len(ts) = 0 \/ perf = NULL THEN <<>>
    ELSE Replay(ClosedTrades(ts), Len(ClosedTrades(ts)), perf)

(* Mutant: the prop itself sorted, trades.sort(...) ahead of the filter. *)
TradesAfterEquityCurve_SortsProp(ts, perf) ==
    IF Len(ts) = 0 \/ perf = NULL THEN ts ELSE SortByTimestamp(ts)

(* The trades prop once the callback has run.  sort reorders its receiver in
   place; the receiver is the array filter returned, not the prop, and no
   statement of the callback writes to a trade or to performance. *)
TradesAfterEquityCurve(ts, perf) == ts

-----------------------------------------------------------------------------
(* symbolPerformance *)

(* symbolStats: Record<string, {wins, losses, totalPnL}>, as its entries in
   insertion order (the order Object.entries gives for these keys). *)
IndexOfKey(entries, key) ==
    IF \E i \in DOMAIN entries : entries[i].key = key
    THEN CHOOSE i \in DOMAIN entries : entries[i].key = key
    ELSE 0

(* Mutant: the entry is initialised on every trade, the guard
   if (!symbolStats[trade.symbol]) lost. *)
AccumulateSymbol_Reinitialised(symbolStats, trade) ==
    LET at == IndexOfKey(symbolStats, trade.symbol)
        fresh == [wins |-> IF trade.trade_status = "CLOSED_WIN" THEN 1 ELSE 0,
                  losses |-> IF trade.trade_status = "CLOSED_WIN" THEN 0 ELSE 1,
                  totalPnL |-> OrZero(trade, "actual_return_pct")]
    IN  IF at = 0
        THEN Append(symbolStats, [key |-> trade.symbol, value |-> fresh])
        ELSE [symbolStats EXCEPT ![at].value = fresh]

(* The body of the forEach over the trades that are not OPEN. *)
AccumulateSymbol(symbolStats, trade) ==
    LET at == IndexOfKey(symbolStats, trade.symbol)
        present == IF at = 0
                   THEN Append(symbolStats,
                               [key |-> trade.symbol,
                                value |-> [wins |-> 0, losses |-> 0, totalPnL |-> 0]])
                   ELSE symbolStats
        i == IF at = 0 THEN Len(present) ELSE at
        counted == IF trade.trade_status = "CLOSED_WIN"
                   THEN [present EXCEPT ![i].value.wins = @ + 1]
                   ELSE [present EXCEPT ![i].value.losses = @ + 1]
    IN  [counted EXCEPT ![i].value.totalPnL = @ + OrZero(trade, "actual_return_pct")]

RECURSIVE SymbolStats(_)
SymbolStats(closed) ==
    IF closed = <<>> THEN <<>>
    ELSE AccumulateSymbol(SymbolStats(SubSeq(closed, 1, Len(closed) - 1)),
                          closed[Len(closed)])

(* x > 0 for a property x: undefined > 0 is false. *)
PropertyGreaterThanZero(obj, field) == Has(obj, field) /\ obj[field] > 0

(* Mutant: total counts the wins only. *)
SymbolStat_TotalOfWins(entry) ==
    LET stats == entry.value
    IN  [symbol |-> entry.key, wins |-> stats.wins, losses |-> stats.losses,
         totalPnL |-> stats.totalPnL, total |-> stats.wins, winRate |-> Zero]

(* ([symbol, stats]) => ({symbol, ...stats, total: stats.wins + stats.losses,
   winRate: stats.total > 0 ? (stats.wins / stats.total) * 100 : 0}).
   stats is the accumulated {wins, losses, totalPnL}: it has no total. *)
SymbolStat(entry) ==
    LET stats == entry.value
    IN  [symbol |-> entry.key,
         wins |-> stats.wins,
         losses |-> stats.losses,
         totalPnL |-> stats.totalPnL,
         total |-> stats.wins + stats.losses,
         winRate |-> IF PropertyGreaterThanZero(stats, "total")
                     THEN RatMul(RatDiv(Num(stats.wins), Num(stats.total)), Num(100))
                     ELSE Zero]

(* Mutant: the filter lost, so an OPEN trade is counted (as a loss). *)
computeSymbolPerformance_CountsOpen(ts) ==
    LET symbolStats == SymbolStats(ts)
    IN  [i \in DOMAIN symbolStats |-> SymbolStat(symbolStats[i])]

computeSymbolPerformance(ts) ==
    LET symbolStats == SymbolStats(FilterNotOpen(ts))
    IN  [i \in DOMAIN symbolStats |-> SymbolStat(symbolStats[i])]

-----------------------------------------------------------------------------
(* dailyPnL *)

(* Mutant: the status test of the filter lost. *)
HasExit_AnyStatus(trade) == TruthyString(trade, "exit_timestamp")

(* t => t.trade_status !== 'OPEN' && t.exit_timestamp *)
ClosedWithExit(trade) ==
    trade.trade_status # "OPEN" /\ TruthyString(trade, "exit_timestamp")

(* Mutant: the day's sum assigned, not added to. *)
AccumulateDay_Overwrite(dailyStats, trade, zone) ==
    LET date == ToDateString(trade.exit_timestamp, zone)
        at == IndexOfKey(dailyStats, date)
        value == OrZero(trade, "actual_return_pct")
    IN  IF at = 0
        THEN Append(dailyStats, [key |-> date, value |-> value])
        ELSE [dailyStats EXCEPT ![at].value = value]

(* dailyStats: Record<string, number>, as its entries in insertion order. *)
AccumulateDay(dailyStats, trade, zone) ==
    LET date == ToDateString(trade.exit_timestamp, zone)
        at == IndexOfKey(dailyStats, date)
        (* if (!dailyStats[date]) dailyStats[date] = 0: a missing key and a
           sum of 0 are both falsy. *)
        present == IF at = 0
                   THEN Append(dailyStats, [key |-> date, value |-> 0])
                   ELSE IF dailyStats[at].value = 0
                        THEN [dailyStats EXCEPT ![at].value = 0]
                        ELSE dailyStats
        i == IF at = 0 THEN Len(present) ELSE at
    IN  [present EXCEPT ![i].value = @ + OrZero(trade, "actual_return_pct")]

RECURSIVE DailyStats(_, _)
DailyStats(included, zone) ==
    IF included = <<>> THEN <<>>
    ELSE AccumulateDay(DailyStats(SubSeq(included, 1, Len(included) - 1), zone),
                       included[Len(included)], zone)

(* Mutant: the day keys compared as strings (a.date.localeCompare(b.date)). *)
LexicalRank(name) ==
    CASE name = "Fri Feb 02 2024" -> 0
      [] name = "Thu Feb 01 2024" -> 1
      [] name = "Tue Jan 30 2024" -> 2
      [] name = "Wed Jan 31 2024" -> 3
CompareDate_Lexical(a, b, zone) == LexicalRank(a.date) - LexicalRank(b.date)

(* The comparator of the sort: the dates' local midnights; NaN, taken as +0,
   when either key is "Invalid Date". *)
CompareDate(a, b, zone) ==
    IF a.date # "Invalid Date" /\ b.date # "Invalid Date"
    THEN DateStringTime(a.date, zone) - DateStringTime(b.date, zone)
    ELSE 0

DatesComparable(days, zone) ==
    \/ \A i \in DOMAIN days : days[i].date # "Invalid Date"
    \/ \A i, j \in DOMAIN days : CompareDate(days[i], days[j], zone) = 0

RECURSIVE InsertByDate(_, _, _)
InsertByDate(sorted, x, zone) ==
    IF sorted = <<>> THEN <<x>>
    ELSE LET last == sorted[Len(sorted)]
         IN  IF CompareDate(last, x, zone) <= 0
             THEN Append(sorted, x)
             ELSE Append(InsertByDate(SubSeq(sorted, 1, Len(sorted) - 1), x, zone),
                         last)

RECURSIVE SortByDate(_, _)
SortByDate(days, zone) ==
    IF days = <<>> THEN <<>>
    ELSE InsertByDate(SortByDate(SubSeq(days, 1, Len(days) - 1), zone),
                      days[Len(days)], zone)

(* Object.entries(dailyStats).map(([date, pnl]) => ({ date, pnl })) *)
DailyEntries(ts, zone) ==
    LET dailyStats == DailyStats(SelectSeq(ts, ClosedWithExit), zone)
    IN  [i \in DOMAIN dailyStats |->
            [date |-> dailyStats[i].key, pnl |-> dailyStats[i].value]]

computeDailyPnL(ts, zone) == SortByDate(DailyEntries(ts, zone), zone)

-----------------------------------------------------------------------------
(* roeDistribution *)

IsWin(trade) == trade.trade_status = "CLOSED_WIN"
IsLoss(trade) == trade.trade_status = "CLOSED_LOSS"

Distribution(wins, losses) ==
    <<[name |-> "Wins", value |-> wins, color |-> "hsl(var(--profit))"],
      [name |-> "Losses", value |-> losses, color |-> "hsl(var(--loss))"]>>

(* Mutants: the wins taken as the closed trades that are not losses, and the
   losses as the closed trades that are not wins. *)
computeDistribution_WinsByRest(ts) ==
    LET closed == FilterNotOpen(ts)
        losses == Len(SelectSeq(closed, IsLoss))
    IN  Distribution(Len(closed) - losses, losses)
computeDistribution_LossesByRest(ts) ==
    LET closed == FilterNotOpen(ts)
        wins == Len(SelectSeq(closed, IsWin))
    IN  Distribution(wins, Len(closed) - wins)

(* Mutant: the counts kept outside the callback and added to by every
   evaluation. *)
computeDistribution_Accumulated(ts) ==
    LET closed == FilterNotOpen(ts)
        before(k) == IF roeDistribution = <<>> THEN 0 ELSE roeDistribution[k].value
    IN  Distribution(before(1) + Len(SelectSeq(closed, IsWin)),
                     before(2) + Len(SelectSeq(closed, IsLoss)))

computeDistribution(ts) ==
    LET closed == FilterNotOpen(ts)
        wins == Len(SelectSeq(closed, IsWin))
        losses == Len(SelectSeq(closed, IsLoss))
    IN  Distribution(wins, losses)

-----------------------------------------------------------------------------
(* Inputs *)

(* Every record has the required properties; trade_id is the position in the
   list, so ids are unique. *)
WithIds(ts) == [i \in 1..Len(ts) |-> ts[i] @@ [trade_id |-> i]]

Performances == {NULL,
                 [current_balance |-> 11000, total_pnl |-> 1000],
                 [current_balance |-> 9000, total_pnl |-> -1000]}

(* The records the equity curve is checked on.  It reads trade_status,
   timestamp, actual_return_pct, symbol and side.  An OPEN trade has no
   realized return; a closed one has it or (a record the API left
   incomplete) lacks it.  A trade recorded earlier exits later. *)
ExitOf(timestamp) ==
    IF timestamp = "2024-01-31T09:00:00Z" THEN "2024-02-01T09:00:00Z"
    ELSE "2024-01-31T21:00:00Z"

EquityTrades ==
    LET stamps == {"2024-01-31T09:00:00Z", "2024-01-31T15:00:00Z"}
        markets == {[symbol |-> "BTCUSDT", side |-> "LONG"],
                    [symbol |-> "ETHUSDT", side |-> "SHORT"]}
        unclosed == {[trade_status |-> "OPEN", timestamp |-> t] : t \in stamps}
        closed == {[trade_status |-> st, timestamp |-> t,
                    exit_timestamp |-> ExitOf(t)] :
                       st \in {"CLOSED_WIN", "CLOSED_LOSS"}, t \in stamps}
        realized == {r @@ [actual_return_pct |->
                              IF r.trade_status = "CLOSED_WIN" THEN 10 ELSE -50] :
                        r \in closed}
        unrealized == {r \in closed : r.trade_status = "CLOSED_WIN"}
    IN  {r @@ m : r \in unclosed \cup realized \cup unrealized, m \in markets}

(* const [selectedTrader, setSelectedTrader] = useState<string | null>(null):
   null is written as the string "null", which is no trader's id. *)
NoTrader == "null"

(* Index after its first render and effect: the states of useState, and the
   loadTraders() of the effect awaiting its response. *)
InitIndex ==
    /\ traders = <<>>
    /\ selectedTrader = NoTrader
    /\ loading = TRUE
    /\ requests = {[origin |-> "mount", selectedTrader |-> NoTrader]}
    /\ lastEvent = "mounted"
    /\ selectedBy = "nobody"

(* symbols: ['BTCUSDT', 'ETHUSDT'] *)
DefaultSymbols == <<"BTCUSDT", "ETHUSDT">>

(* CreateTrader after its first render.  Of the numeric fields of the
   configuration, which no handler of the claims reads, initial_balance
   stands for all. *)
InitCreateTrader ==
    /\ open = FALSE
    /\ createLoading = FALSE
    /\ newSymbol = ""
    /\ config = [name |-> "", initial_balance |-> 10000,
                 symbols |-> DefaultSymbols]
    /\ pendingCreate = {}
    /\ createEvent = "mounted"
    /\ notified = 0

(* The traders a dashboard is shown for. *)
DashboardTraders == {"t1", "t2"}

(* No TraderDashboard is mounted. *)
DashboardUnmounted ==
    /\ traderId = NoTrader
    /\ isRunning = FALSE
    /\ dashboardLoading = FALSE
    /\ timers = [id \in DashboardTraders |-> 0]
    /\ dataRequests = {}
    /\ pendingStartStop = {}
    /\ dataOf = NoTrader
    /\ appliedCurrent = FALSE
    /\ dashboardEvent = "unmounted"

InitPage == InitIndex /\ InitCreateTrader /\ DashboardUnmounted

InitChart ==
    /\ computed = {}
    /\ closedTrades = <<>>
    /\ equityCurve = <<>>
    /\ symbolPerformance = <<>>
    /\ dailyPnL = <<>>
    /\ roeDistribution = <<>>
    /\ firstRender = NULL

InitViews ==
    /\ InitChart
    /\ InitPage

InitEquity ==
    /\ \E n \in 0..MaxTrades :
          \E ts \in [1..n -> EquityTrades] : trades = WithIds(ts)
    /\ performance \in Performances
    /\ timeZone = 0
    /\ InitViews

(* The callback of equityCurve over the props ts and perf: what it leaves in closedTrades and returns.
   The order of closedTrades is the sort's; it is the stable ascending order
   unless the comparator is inconsistent. *)
EquityCurveCallback(ts, perf) ==
    IF Len(ts) = 0 \/ perf = NULL
    THEN closedTrades' = <<>> /\ equityCurve' = computeEquityCurve(ts, perf)
    ELSE IF TimestampsComparable(FilterNotOpen(ts))
         THEN /\ closedTrades' = ClosedTrades(ts)
              /\ equityCurve' = computeEquityCurve(ts, perf)
         ELSE \E closed \in Reorderings(FilterNotOpen(ts)) :
                /\ closedTrades' = closed
                /\ equityCurve' = Replay(closed, Len(closed), perf)

(* The callback of dailyPnL over the trades prop ts. *)
DailyPnLCallback(ts) ==
    IF DatesComparable(DailyEntries(ts, timeZone), timeZone)
    THEN dailyPnL' = computeDailyPnL(ts, timeZone)
    ELSE dailyPnL' \in Reorderings(DailyEntries(ts, timeZone))

(* const equityCurve = useMemo(() => ..., [trades, performance]) *)
EquityCurveMemo ==
    /\ "equityCurve" \notin computed
    /\ computed' = computed \cup {"equityCurve"}
    /\ EquityCurveCallback(trades, performance)
    /\ trades' = TradesAfterEquityCurve(trades, performance)
    /\ UNCHANGED <<performance, timeZone, symbolPerformance, dailyPnL,
                   roeDistribution, firstRender, pageVars>>

SpecEquity == InitEquity /\ [][EquityCurveMemo]_vars

(* The records symbolPerformance is checked on.  It reads trade_status,
   symbol and actual_return_pct.  CLOSED_BREAKEVEN is a status outside the
   declared union, which the API can still send. *)
SymbolTrades ==
    LET outcomes == {[trade_status |-> "OPEN"],
                     [trade_status |-> "CLOSED_WIN", actual_return_pct |-> 5],
                     [trade_status |-> "CLOSED_WIN"],
                     [trade_status |-> "CLOSED_LOSS", actual_return_pct |-> -3],
                     [trade_status |-> "CLOSED_BREAKEVEN"]}
    IN  {r @@ [symbol |-> sym, side |-> "LONG",
               timestamp |-> "2024-01-31T09:00:00Z"] :
            r \in outcomes, sym \in {"BTCUSDT", "ETHUSDT"}}

InitSymbol ==
    /\ \E n \in 0..MaxTrades :
          \E ts \in [1..n -> SymbolTrades] : trades = WithIds(ts)
    /\ performance = NULL
    /\ timeZone = 0
    /\ InitViews

(* const symbolPerformance = useMemo(() => ..., [trades]) *)
SymbolPerformanceMemo ==
    /\ "symbolPerformance" \notin computed
    /\ computed' = computed \cup {"symbolPerformance"}
    /\ symbolPerformance' = computeSymbolPerformance(trades)
    /\ UNCHANGED <<trades, performance, timeZone, closedTrades, equityCurve,
                   dailyPnL, roeDistribution, firstRender, pageVars>>

SpecSymbol == InitSymbol /\ [][SymbolPerformanceMemo]_vars

(* The records dailyPnL is checked on.  It reads trade_status,
   exit_timestamp and actual_return_pct.  Besides the well-formed records
   there are a closed trade without an exit timestamp, a closed trade without
   a realized return, and an OPEN record that carries exit data. *)
DailyTrades ==
    LET exits == {"2024-01-31T09:00:00Z", "2024-01-31T21:00:00Z",
                  "2024-02-01T09:00:00Z"}
        outcomes ==
            {[trade_status |-> "OPEN"],
             [trade_status |-> "OPEN", actual_return_pct |-> 5,
              exit_timestamp |-> "2024-01-31T09:00:00Z"],
             [trade_status |-> "CLOSED_WIN", actual_return_pct |-> 5],
             [trade_status |-> "CLOSED_WIN",
              exit_timestamp |-> "2024-01-31T09:00:00Z"]}
            \cup [trade_status : {"CLOSED_WIN"}, actual_return_pct : {5},
                  exit_timestamp : exits]
            \cup [trade_status : {"CLOSED_LOSS"}, actual_return_pct : {-3},
                  exit_timestamp : exits \ {"2024-01-31T21:00:00Z"}]
    IN  {r @@ [symbol |-> "BTCUSDT", side |-> "LONG",
               timestamp |-> "2024-01-31T09:00:00Z"] : r \in outcomes}

InitDaily ==
    /\ \E n \in 0..MaxTrades :
          \E ts \in [1..n -> DailyTrades] : trades = WithIds(ts)
    /\ performance = NULL
    /\ timeZone \in {-10, 0, 5}
    /\ InitViews

(* const dailyPnL = useMemo(() => ..., [trades]) *)
DailyPnLMemo ==
    /\ "dailyPnL" \notin computed
    /\ computed' = computed \cup {"dailyPnL"}
    /\ DailyPnLCallback(trades)
    /\ UNCHANGED <<trades, performance, timeZone, closedTrades, equityCurve,
                   symbolPerformance, roeDistribution, firstRender, pageVars>>

SpecDaily == InitDaily /\ [][DailyPnLMemo]_vars

(* The records the whole component is checked on: for each market an OPEN
   trade, closed trades with their exit data, a closed trade the API left
   without exit data, and a trade of a status outside the declared union. *)
Trades ==
    LET markets == {[symbol |-> "BTCUSDT", side |-> "LONG"],
                    [symbol |-> "ETHUSDT", side |-> "SHORT"]}
        early == "2024-01-31T09:00:00Z"
        late == "2024-01-31T15:00:00Z"
        outcomes ==
            {[trade_status |-> "OPEN", timestamp |-> early],
             [trade_status |-> "CLOSED_WIN", timestamp |-> early,
              exit_timestamp |-> ExitOf(early), actual_return_pct |-> 10],
             [trade_status |-> "CLOSED_WIN", timestamp |-> late,
              exit_timestamp |-> ExitOf(late), actual_return_pct |-> 10],
             [trade_status |-> "CLOSED_LOSS", timestamp |-> late,
              exit_timestamp |-> ExitOf(late), actual_return_pct |-> -50],
             [trade_status |-> "CLOSED_WIN", timestamp |-> early],
             [trade_status |-> "CLOSED_BREAKEVEN", timestamp |-> late,
              exit_timestamp |-> ExitOf(late)]}
    IN  {r @@ m : r \in outcomes, m \in markets}

Init ==
    /\ \E n \in 0..MaxTrades :
          \E ts \in [1..n -> Trades] : trades = WithIds(ts)
    /\ performance \in Performances
    /\ timeZone = 0
    /\ InitViews

(* const roeDistribution = useMemo(() => ..., [trades]) *)
RoeDistributionMemo ==
    /\ "roeDistribution" \notin computed
    /\ computed' = computed \cup {"roeDistribution"}
    /\ roeDistribution' = computeDistribution(trades)
    /\ UNCHANGED <<trades, performance, timeZone, closedTrades, equityCurve,
                   symbolPerformance, dailyPnL, firstRender, pageVars>>

(* One call of the function component: the four useMemo callbacks run in
   order, synchronously. *)
Render ==
    /\ computed = {}
    /\ computed' = {"equityCurve", "symbolPerformance", "dailyPnL",
                    "roeDistribution"}
    /\ EquityCurveCallback(trades, performance)
    /\ trades' = TradesAfterEquityCurve(trades, performance)
    /\ symbolPerformance' = computeSymbolPerformance(trades')
    /\ DailyPnLCallback(trades')
    /\ roeDistribution' = computeDistribution(trades')
    /\ firstRender' = [trades |-> trades', performance |-> performance,
                       equityCurve |-> equityCurve',
                       symbolPerformance |-> symbolPerformance',
                       dailyPnL |-> dailyPnL',
                       roeDistribution |-> roeDistribution',
                       others |-> FALSE]
    /\ UNCHANGED <<performance, timeZone, pageVars>>

Next == Render

Spec == Init /\ [][Next]_vars

(* The records the date-ordered views are checked on when a timestamp does
   not parse: closed and OPEN trades whose timestamp, exit_timestamp or both
   are the string "not-a-date", beside well-formed ones. *)
MalformedTrades ==
    LET stamps == {"2024-01-31T09:00:00Z", "2024-02-01T09:00:00Z",
                   "not-a-date"}
        closed == [trade_status : {"CLOSED_WIN"}, actual_return_pct : {10},
                   timestamp : stamps, exit_timestamp : stamps]
        unclosed == [trade_status : {"OPEN"},
                 timestamp : {"2024-01-31T09:00:00Z", "not-a-date"}]
        selected == {r \in closed :
                        \/ r.timestamp = r.exit_timestamp
                        \/ "not-a-date" \in {r.timestamp, r.exit_timestamp}}
    IN  {r @@ [symbol |-> "BTCUSDT", side |-> "LONG"] :
            r \in selected \cup unclosed}

InitMalformed ==
    /\ \E n \in 0..MaxTrades :
          \E ts \in [1..n -> MalformedTrades] : trades = WithIds(ts)
    /\ performance \in Performances
    /\ timeZone \in {0, 5}
    /\ InitViews

SpecMalformed == InitMalformed /\ [][EquityCurveMemo \/ DailyPnLMemo]_vars

(* The records the equity curve is checked on when a realized return is not
   a number: closed trades whose actual_return_pct is a number, is missing or
   is the string "n/a", and an OPEN trade. *)
InvalidTrades ==
    LET stamps == {"2024-01-31T09:00:00Z", "2024-01-31T15:00:00Z"}
        outcomes ==
            {[trade_status |-> "OPEN"],
             [trade_status |-> "CLOSED_WIN", actual_return_pct |-> 10],
             [trade_status |-> "CLOSED_LOSS", actual_return_pct |-> -50],
             [trade_status |-> "CLOSED_WIN"],
             [trade_status |-> "CLOSED_WIN", actual_return_pct |-> "n/a",
              nonNumeric |-> {"actual_return_pct"}]}
    IN  {r @@ [symbol |-> "BTCUSDT", side |-> "LONG", timestamp |-> t] :
            r \in outcomes, t \in stamps}

InitInvalid ==
    /\ \E n \in 0..MaxTrades :
          \E ts \in [1..n -> InvalidTrades] : trades = WithIds(ts)
    /\ performance \in Performances
    /\ timeZone = 0
    /\ InitViews

SpecInvalid == InitInvalid /\ [][EquityCurveMemo]_vars

-----------------------------------------------------------------------------
(* PerformanceChart under the polling of TraderDashboard *)

(* Every useMemo of the component holds a value. *)
Rendered == computed = {"equityCurve", "symbolPerformance", "dailyPnL",
                        "roeDistribution"}

(* The longest trade list a poll returns. *)
MaxPolledTrades == 2

(* The records a poll returns: a winning trade and a losing trade that was
   recorded before it. *)
PolledTrades ==
    {[symbol |-> "BTCUSDT", side |-> "LONG", trade_status |-> "CLOSED_WIN",
      timestamp |-> "2024-01-31T15:00:00Z",
      exit_timestamp |-> ExitOf("2024-01-31T15:00:00Z"),
      actual_return_pct |-> 10],
     [symbol |-> "ETHUSDT", side |-> "SHORT", trade_status |-> "CLOSED_LOSS",
      timestamp |-> "2024-01-31T09:00:00Z",
      exit_timestamp |-> ExitOf("2024-01-31T09:00:00Z"),
      actual_return_pct |-> -50]}

(* Mutant: the dependency list of equityCurve without performance. *)
Deps_EquityCurveByTrades ==
    [equityCurve |-> {"trades"},
     symbolPerformance |-> {"trades"},
     dailyPnL |-> {"trades"},
     roeDistribution |-> {"trades"}]

(* The dependency list of each useMemo. *)
Deps ==
    [equityCurve |-> {"trades", "performance"},
     symbolPerformance |-> {"trades"},
     dailyPnL |-> {"trades"},
     roeDistribution |-> {"trades"}]

(* useMemo runs the callback again when a dependency is another reference
   than at the last render, and returns the value it holds otherwise. *)
Stale(view, changed) == Deps[view] \cap changed # {}

(* PerformanceChart rendered again with the props ts and perf, of which
   those named in changed are new references. *)
Rerender(ts, perf, changed) ==
    /\ Rendered
    /\ performance' = perf
    /\ IF Stale("equityCurve", changed)
       THEN /\ EquityCurveCallback(ts, perf)
            /\ trades' = TradesAfterEquityCurve(ts, perf)
       ELSE /\ UNCHANGED <<closedTrades, equityCurve>>
            /\ trades' = ts
    /\ symbolPerformance' = IF Stale("symbolPerformance", changed)
                            THEN computeSymbolPerformance(trades')
                            ELSE symbolPerformance
    /\ IF Stale("dailyPnL", changed)
       THEN DailyPnLCallback(trades')
       ELSE UNCHANGED dailyPnL
    /\ roeDistribution' = IF Stale("roeDistribution", changed)
                          THEN computeDistribution(trades')
                          ELSE roeDistribution
    /\ firstRender' =
          [firstRender EXCEPT !.others =
              \/ @
              \/ ts # firstRender.trades
              \/ perf # firstRender.performance]
    /\ UNCHANGED <<computed, timeZone, pageVars>>

(* loadTraderData: the poll's JSON is parsed into a new array and a new
   object.  setTrades and setPerformance are rendered together when React
   batches them, and one after the other when it does not. *)
SetTrades ==
    \E n \in 0..MaxPolledTrades :
        \E tradesData \in [1..n -> PolledTrades] :
            Rerender(WithIds(tradesData), performance, {"trades"})

SetPerformance ==
    \E performanceData \in Performances :
        Rerender(trades, performanceData, {"performance"})

SetTradesAndPerformance ==
    \E n \in 0..MaxPolledTrades :
        \E tradesData \in [1..n -> PolledTrades] :
            \E performanceData \in Performances :
                Rerender(WithIds(tradesData), performanceData,
                         {"trades", "performance"})

InitRefresh ==
    /\ \E n \in 0..MaxPolledTrades :
          \E ts \in [1..n -> PolledTrades] : trades = WithIds(ts)
    /\ performance \in Performances
    /\ timeZone = 0
    /\ InitViews

NextRefresh ==
    \/ Render
    \/ SetTrades
    \/ SetPerformance
    \/ SetTradesAndPerformance

SpecRefresh == InitRefresh /\ [][NextRefresh]_vars

-----------------------------------------------------------------------------
(* The Index page *)

(* The most traders the backend lists, and the most loadTraders calls that
   await their response at one time. *)
MaxTraders == 2
MaxRequests == 2

TraderIds == {"t1", "t2", "t3"}

(* What tradingAPI.getTraders() may resolve to: the traders of the backend
   at that time, each listed once. *)
TraderLists ==
    UNION {{data \in [1..n -> [id : TraderIds]] :
               \A i, j \in 1..n : data[i].id = data[j].id => i = j} :
           n \in 0..MaxTraders}

(* data.find(t => t.id === id) *)
Find(data, id) == \E i \in DOMAIN data : data[i].id = id

(* A call of loadTraders up to its await.  The function reads the
   selectedTrader of the render that created it. *)
loadTraders(origin, captured) ==
    /\ Cardinality(requests) < MaxRequests
    /\ requests' = requests \cup {[origin |-> origin, selectedTrader |-> captured]}

(* setInterval(loadTraders, 10000) in the effect with the dependency list []:
   the timer keeps the loadTraders of the first render, in which
   selectedTrader is null. *)
PollTraders ==
    /\ loadTraders("poll", NoTrader)
    /\ lastEvent' = "poll"
    /\ UNCHANGED <<traders, selectedTrader, loading, selectedBy, outsideIndex>>

(* The selection loadTraders makes after setTraders(data), from the
   selectedTrader its closure holds. *)
SelectionAfterLoad(captured, data, current) ==
    IF captured = NoTrader /\ Len(data) > 0 THEN data[1].id
    ELSE IF captured # NoTrader /\ ~Find(data, captured)
         THEN IF Len(data) > 0 THEN data[1].id ELSE NoTrader
         ELSE current

(* loadTraders from the response on: the try block and finally. *)
TradersLoaded ==
    \E request \in requests : \E data \in TraderLists :
        /\ requests' = requests \ {request}
        /\ traders' = data
        /\ selectedTrader' = SelectionAfterLoad(request.selectedTrader, data,
                                                selectedTrader)
        /\ selectedBy' = IF selectedTrader' # selectedTrader
                         THEN "loadTraders" ELSE selectedBy
        /\ loading' = FALSE
        /\ lastEvent' = request.origin \o " loaded"
        /\ UNCHANGED outsideIndex

(* loadTraders when getTraders rejects: catch and finally. *)
TradersFailed ==
    \E request \in requests :
        /\ requests' = requests \ {request}
        /\ loading' = FALSE
        /\ lastEvent' = request.origin \o " failed"
        /\ UNCHANGED <<traders, selectedTrader, selectedBy, outsideIndex>>

(* onClick={() => setSelectedTrader(trader.id)} of a listed trader. *)
SelectTrader ==
    \E i \in DOMAIN traders :
        /\ ~loading
        /\ selectedTrader' = traders[i].id
        /\ selectedBy' = "user"
        /\ lastEvent' = "selected"
        /\ UNCHANGED <<traders, loading, requests, outsideIndex>>

(* handleTraderCreated, called by CreateTrader with the handler of the
   current render. *)
handleTraderCreated ==
    /\ ~loading
    /\ loadTraders("created", selectedTrader)
    /\ lastEvent' = "created"
    /\ UNCHANGED <<traders, selectedTrader, loading, selectedBy, outsideIndex>>

(* handleTraderDeleted, called by the TraderDashboard of the selected
   trader. *)
handleTraderDeleted ==
    /\ ~loading
    /\ Find(traders, selectedTrader)
    /\ selectedTrader' = NoTrader
    /\ selectedBy' = "handleTraderDeleted"
    /\ loadTraders("deleted", selectedTrader)
    /\ lastEvent' = "deleted"
    /\ UNCHANGED <<traders, loading, outsideIndex>>

InitIndexPage ==
    /\ trades = <<>>
    /\ performance = NULL
    /\ timeZone = 0
    /\ InitViews

NextIndex ==
    \/ PollTraders
    \/ TradersLoaded
    \/ TradersFailed
    \/ SelectTrader
    \/ handleTraderCreated
    \/ handleTraderDeleted

SpecIndex == InitIndexPage /\ [][NextIndex]_vars

-----------------------------------------------------------------------------
(* The CreateTrader dialog *)

(* String.prototype.trim on the strings a check types: white space at both
   ends is dropped. *)
Trim(s) ==
    CASE s = " " -> ""
      [] s = "  " -> ""
      [] s = " Bot " -> "Bot"
      [] s = " btcusdt " -> "btcusdt"
      [] s = "SOLUSDT " -> "SOLUSDT"
      [] OTHER -> s

(* String.prototype.toUpperCase on the trimmed strings. *)
ToUpperCase(s) ==
    CASE s = "btcusdt" -> "BTCUSDT"
      [] s = "solusdt" -> "SOLUSDT"
      [] s = "SolUsdt" -> "SOLUSDT"
      [] s = "Bot" -> "BOT"
      [] OTHER -> s

(* What the user may type as a name and as a symbol. *)
TypedNames == {"", "  ", " Bot "}
TypedSymbols == {"", " ", " btcusdt ", "solusdt", "SolUsdt", "SOLUSDT "}

(* array.includes(x) *)
Includes(array, x) == \E i \in DOMAIN array : array[i] = x

(* Mutant: the name tested as typed. *)
ValidName_Untrimmed(name) == name # ""

(* config.name.trim() is truthy. *)
ValidName(name) == Trim(name) # ""

(* Mutant: the symbol added as typed. *)
SymbolToAdd_AsTyped(typed) == typed

(* newSymbol.trim().toUpperCase() *)
SymbolToAdd(typed) == ToUpperCase(Trim(typed))

(* Mutant: the reset keeps the symbols. *)
ResetForm_KeepsSymbols(cfg) == [cfg EXCEPT !.name = ""]

(* { ...config, name: '', symbols: ['BTCUSDT', 'ETHUSDT'] } *)
ResetForm(cfg) == [cfg EXCEPT !.name = "", !.symbols = DefaultSymbols]

(* The DialogTrigger, and Cancel or onOpenChange(false). *)
OpenDialog ==
    /\ ~open
    /\ open' = TRUE
    /\ createEvent' = "opened"
    /\ notified' = 0
    /\ UNCHANGED <<createLoading, newSymbol, config, pendingCreate,
                   outsideCreateTrader>>

CloseDialog ==
    /\ open
    /\ open' = FALSE
    /\ createEvent' = "closed"
    /\ notified' = 0
    /\ UNCHANGED <<createLoading, newSymbol, config, pendingCreate,
                   outsideCreateTrader>>

(* updateConfig('name', e.target.value) *)
updateConfig(field, value) ==
    /\ open
    /\ config' = [config EXCEPT ![field] = value]
    /\ createEvent' = "updateConfig"
    /\ notified' = 0
    /\ UNCHANGED <<open, createLoading, newSymbol, pendingCreate,
                   outsideCreateTrader>>

TypeName == \E value \in TypedNames : updateConfig("name", value)

(* onChange={(e) => setNewSymbol(e.target.value)} *)
TypeSymbol ==
    \E value \in TypedSymbols :
        /\ open
        /\ newSymbol' = value
        /\ createEvent' = "setNewSymbol"
        /\ notified' = 0
        /\ UNCHANGED <<open, createLoading, config, pendingCreate,
                       outsideCreateTrader>>

addSymbol ==
    /\ open
    /\ IF Trim(newSymbol) # "" /\ ~Includes(config.symbols, SymbolToAdd(newSymbol))
       THEN /\ config' = [config EXCEPT
                             !.symbols = Append(@, SymbolToAdd(newSymbol))]
            /\ newSymbol' = ""
       ELSE UNCHANGED <<config, newSymbol>>
    /\ createEvent' = "addSymbol"
    /\ notified' = 0
    /\ UNCHANGED <<open, createLoading, pendingCreate, outsideCreateTrader>>

removeSymbol ==
    \E i \in DOMAIN config.symbols :
        LET symbol == config.symbols[i]
            kept(s) == s # symbol
        IN  /\ open
            /\ config' = [config EXCEPT !.symbols = SelectSeq(@, kept)]
            /\ createEvent' = "removeSymbol"
            /\ notified' = 0
            /\ UNCHANGED <<open, createLoading, newSymbol, pendingCreate,
                           outsideCreateTrader>>

(* handleSubmit up to its await; the submit button is disabled while
   loading. *)
handleSubmit ==
    /\ open
    /\ ~createLoading
    /\ IF ~ValidName(config.name) \/ Len(config.symbols) = 0
       THEN /\ createEvent' = "rejected"
            /\ UNCHANGED <<createLoading, pendingCreate>>
       ELSE /\ createLoading' = TRUE
            /\ pendingCreate' = {config}
            /\ createEvent' = "createTrader"
    /\ notified' = 0
    /\ UNCHANGED <<open, newSymbol, config, outsideCreateTrader>>

(* handleSubmit after createTrader resolved: the rest of try, and finally.
   config is the one the handler was created with. *)
CreateSucceeded ==
    \E submitted \in pendingCreate :
        /\ pendingCreate' = {}
        /\ open' = FALSE
        /\ notified' = 1
        /\ config' = ResetForm(submitted)
        /\ createLoading' = FALSE
        /\ createEvent' = "succeeded"
        /\ UNCHANGED <<newSymbol, outsideCreateTrader>>

(* handleSubmit after createTrader rejected: catch and finally. *)
CreateFailed ==
    /\ pendingCreate # {}
    /\ pendingCreate' = {}
    /\ createLoading' = FALSE
    /\ createEvent' = "failed"
    /\ notified' = 0
    /\ UNCHANGED <<open, newSymbol, config, outsideCreateTrader>>

NextCreateTrader ==
    \/ OpenDialog
    \/ CloseDialog
    \/ TypeName
    \/ TypeSymbol
    \/ addSymbol
    \/ removeSymbol
    \/ handleSubmit
    \/ CreateSucceeded
    \/ CreateFailed

SpecCreateTrader == InitIndexPage /\ [][NextCreateTrader]_vars

-----------------------------------------------------------------------------
(* TraderDashboard *)

(* The most loadTraderData calls that await their response at one time. *)
MaxDataRequests == 2

(* What the three requests of loadTraderData may resolve to. *)
DashboardData ==
    [is_running : BOOLEAN,
     trades : {<<>>,
               WithIds(<<[symbol |-> "BTCUSDT", side |-> "LONG",
                          trade_status |-> "OPEN",
                          timestamp |-> "2024-01-31T09:00:00Z"]>>)},
     performance : {[current_balance |-> 11000, total_pnl |-> 1000]}]

Mounted == traderId # NoTrader

(* setInterval and clearInterval, on the intervals counted by traderId. *)
SetInterval(running, id) == [running EXCEPT ![id] = @ + 1]

ClearInterval(running, id) == [running EXCEPT ![id] = @ - 1]

(* A call of loadTraderData up to its await.  The function requests the
   traderId of the render that created it. *)
loadTraderData(id, origin) ==
    /\ Cardinality(dataRequests) < MaxDataRequests
    /\ dataRequests' = dataRequests \cup {[traderId |-> id, origin |-> origin]}

(* TraderDashboard mounts for a trader: useState, and the effect. *)
InitDashboard ==
    /\ trades = <<>>
    /\ performance = NULL
    /\ timeZone = 0
    /\ InitChart
    /\ InitIndex
    /\ InitCreateTrader
    /\ traderId \in DashboardTraders
    /\ isRunning = FALSE
    /\ dashboardLoading = FALSE
    /\ timers = SetInterval([id \in DashboardTraders |-> 0], traderId)
    /\ dataRequests = {[traderId |-> traderId, origin |-> "effect"]}
    /\ pendingStartStop = {}
    /\ dataOf = NoTrader
    /\ appliedCurrent = FALSE
    /\ dashboardEvent = "mounted"

(* Index passes another traderId: the cleanup of the effect, then the effect
   of the new render. *)
ChangeTrader ==
    \E id \in DashboardTraders :
        /\ Mounted
        /\ id # traderId
        /\ traderId' = id
        /\ timers' = SetInterval(ClearInterval(timers, traderId), id)
        /\ loadTraderData(id, "effect")
        /\ appliedCurrent' = FALSE
        /\ dashboardEvent' = "traderId"
        /\ UNCHANGED <<isRunning, trades, performance, dashboardLoading,
                       pendingStartStop, dataOf, outsideDashboard>>

(* Index stops rendering the dashboard: the cleanup of the effect. *)
Unmount ==
    /\ Mounted
    /\ traderId' = NoTrader
    /\ timers' = ClearInterval(timers, traderId)
    /\ dashboardEvent' = "unmounted"
    /\ UNCHANGED <<isRunning, trades, performance, dashboardLoading,
                   dataRequests, pendingStartStop, dataOf, appliedCurrent,
                   outsideDashboard>>

(* An interval fires: the loadTraderData of the render that set it. *)
PollTraderData ==
    \E id \in DashboardTraders :
        /\ timers[id] > 0
        /\ loadTraderData(id, "poll")
        /\ dashboardEvent' = "poll"
        /\ UNCHANGED <<traderId, isRunning, trades, performance,
                       dashboardLoading, timers, pendingStartStop, dataOf,
                       appliedCurrent, outsideDashboard>>

(* The finally of handleStartStop, reached when its loadTraderData is over. *)
LoadingAfter(request) ==
    IF request.origin = "startStop" /\ Mounted THEN FALSE ELSE dashboardLoading

(* loadTraderData from the responses on.  The setters of a component that is
   unmounted do nothing. *)
DataLoaded ==
    \E request \in dataRequests : \E data \in DashboardData :
        /\ dataRequests' = dataRequests \ {request}
        /\ IF Mounted
           THEN /\ isRunning' = data.is_running
                /\ trades' = data.trades
                /\ performance' = data.performance
                /\ dataOf' = request.traderId
                /\ appliedCurrent' = (appliedCurrent \/ request.traderId = traderId)
           ELSE UNCHANGED <<isRunning, trades, performance, dataOf,
                            appliedCurrent>>
        /\ dashboardLoading' = LoadingAfter(request)
        /\ dashboardEvent' = request.origin \o " loaded"
        /\ UNCHANGED <<traderId, timers, pendingStartStop, outsideDashboard>>

(* loadTraderData when a request rejects: the catch. *)
DataFailed ==
    \E request \in dataRequests :
        /\ dataRequests' = dataRequests \ {request}
        /\ dashboardLoading' = LoadingAfter(request)
        /\ dashboardEvent' = request.origin \o " failed"
        /\ UNCHANGED <<traderId, isRunning, trades, performance, timers,
                       pendingStartStop, dataOf, appliedCurrent,
                       outsideDashboard>>

(* Mutant: the calls exchanged. *)
StartStopCall_Exchanged(running) ==
    IF running THEN "startTrader" ELSE "stopTrader"

(* if (isRunning) stopTrader(traderId) else startTrader(traderId) *)
StartStopCall(running) ==
    IF running THEN "stopTrader" ELSE "startTrader"

(* handleStartStop up to its first await; the button is disabled while
   loading. *)
handleStartStop ==
    /\ Mounted
    /\ ~dashboardLoading
    /\ dashboardLoading' = TRUE
    /\ pendingStartStop' = {[traderId |-> traderId,
                             call |-> StartStopCall(isRunning)]}
    /\ dashboardEvent' = "handleStartStop"
    /\ UNCHANGED <<traderId, isRunning, trades, performance, timers,
                   dataRequests, dataOf, appliedCurrent, outsideDashboard>>

(* handleStartStop after the call resolved: await loadTraderData(), with the
   loadTraderData of the render that created the handler. *)
StartStopSucceeded ==
    \E request \in pendingStartStop :
        /\ pendingStartStop' = {}
        /\ loadTraderData(request.traderId, "startStop")
        /\ dashboardEvent' = "call succeeded"
        /\ UNCHANGED <<traderId, isRunning, trades, performance,
                       dashboardLoading, timers, dataOf, appliedCurrent,
                       outsideDashboard>>

(* handleStartStop after the call rejected: catch and finally. *)
StartStopFailed ==
    \E request \in pendingStartStop :
        /\ pendingStartStop' = {}
        /\ dashboardLoading' = (IF Mounted THEN FALSE ELSE dashboardLoading)
        /\ dashboardEvent' = "call failed"
        /\ UNCHANGED <<traderId, isRunning, trades, performance, timers,
                       dataRequests, dataOf, appliedCurrent, outsideDashboard>>

NextDashboard ==
    \/ ChangeTrader
    \/ Unmount
    \/ PollTraderData
    \/ DataLoaded
    \/ DataFailed
    \/ handleStartStop
    \/ StartStopSucceeded
    \/ StartStopFailed

SpecDashboard == InitDashboard /\ [][NextDashboard]_vars

-----------------------------------------------------------------------------
(* Properties of equityCurve, under SpecEquity *)

EquityDone == "equityCurve" \in computed

(* The trades that are not OPEN, by position. *)
ClosedPositions == {i \in DOMAIN trades : trades[i].trade_status # "OPEN"}

(* C1: the equity curve is empty whenever the trade list is empty or the
   performance snapshot is null; no Start point is emitted for a null
   snapshot, whatever the trades. *)
C1_EmptyWithoutInput ==
    EquityDone /\ (Len(trades) = 0 \/ performance = NULL) => equityCurve = <<>>

C1_Witness ==
    /\ EquityDone
    /\ performance = NULL
    /\ ClosedPositions # {}
    /\ equityCurve = <<>>

(* C2: for a non-empty trade list and a present snapshot the curve has
   1 + (number of trades that are not OPEN) points. *)
C2_Length ==
    EquityDone /\ Len(trades) > 0 /\ performance # NULL
        => Len(equityCurve) = 1 + Cardinality(ClosedPositions)

C2_Witness ==
    /\ EquityDone
    /\ performance # NULL
    /\ Cardinality(ClosedPositions) = 2
    /\ Len(trades) = 3
    /\ Len(equityCurve) = 3

(* C3: a non-empty curve starts with the point labelled "Start", of
   increment 0 and balance current_balance - total_pnl. *)
C3_StartPoint ==
    EquityDone /\ equityCurve # <<>>
        => /\ equityCurve[1].time = "Start"
           /\ equityCurve[1].pnl = [n |-> 0, d |-> 1]
           /\ equityCurve[1].balance.d = 1
           /\ equityCurve[1].balance.n + performance.total_pnl
                 = performance.current_balance

C3_Witness ==
    /\ EquityDone
    /\ Len(equityCurve) > 1
    /\ performance.total_pnl < 0
    /\ equityCurve[1].balance = [n |-> 10000, d |-> 1]

(* C4: the i-th replayed trade adds actual_return_pct percent of the balance
   of the point before it (0 when it has no actual_return_pct), and the new
   balance is the previous balance plus that increment. *)
C4_Compounding ==
    EquityDone =>
        \A i \in 2..Len(equityCurve) :
            LET prev == equityCurve[i - 1].balance
                point == equityCurve[i]
                trade == closedTrades[i - 1]
            IN  /\ IF Has(trade, "actual_return_pct")
                   THEN RatMul(point.pnl, Num(100))
                           = RatMul(Num(trade.actual_return_pct), prev)
                   ELSE point.pnl = Zero
                /\ RatSub(point.balance, prev) = point.pnl

C4_Witness ==
    /\ EquityDone
    /\ Len(equityCurve) = 3
    /\ Has(closedTrades[1], "actual_return_pct")
    /\ Has(closedTrades[2], "actual_return_pct")
    /\ equityCurve[3].pnl # RatMul(Rat(closedTrades[2].actual_return_pct, 100),
                                   equityCurve[1].balance)

(* C5: the replayed trades are the trades that are not OPEN, in ascending
   order of timestamp, trades of equal timestamp in their input order; the
   curve's points follow that order. *)
C5_ReplayOrder ==
    EquityDone /\ Len(trades) > 0 /\ performance # NULL =>
        /\ Len(closedTrades) = Cardinality(ClosedPositions)
        /\ {closedTrades[i] : i \in DOMAIN closedTrades}
              = {trades[i] : i \in ClosedPositions}
        /\ \A i, j \in DOMAIN closedTrades :
              i < j =>
                 \/ GetTime(closedTrades[i].timestamp)
                       < GetTime(closedTrades[j].timestamp)
                 \/ /\ closedTrades[i].timestamp = closedTrades[j].timestamp
                    /\ closedTrades[i].trade_id < closedTrades[j].trade_id
        /\ \A i \in DOMAIN closedTrades :
              /\ equityCurve[i + 1].symbol = closedTrades[i].symbol
              /\ equityCurve[i + 1].side = closedTrades[i].side

(* Two trades of equal timestamp that differ, and one recorded earlier that
   comes later in the input and exits later. *)
C5_Witness ==
    /\ EquityDone
    /\ Len(closedTrades) = 3
    /\ closedTrades[1].trade_id = 3
    /\ closedTrades[2].timestamp = closedTrades[3].timestamp
    /\ closedTrades[2].symbol # closedTrades[3].symbol
    /\ GetTime(closedTrades[1].exit_timestamp)
          > GetTime(closedTrades[2].exit_timestamp)

(* C6: OPEN trades contribute nothing: the curve of a non-empty list is the
   curve of its trades that are not OPEN (the Start point alone when there
   are none), so lists with the same such trades have the same curve; and
   {current_balance: 11000, total_pnl: 1000} with [CLOSED_WIN of 10 percent,
   OPEN] gives Start (10000, 0) and Trade 1 (11000, 1000). *)
C6_Scenario ==
    /\ performance = [current_balance |-> 11000, total_pnl |-> 1000]
    /\ Len(trades) = 2
    /\ trades[1].trade_status = "CLOSED_WIN"
    /\ Has(trades[1], "actual_return_pct")
    /\ trades[1].actual_return_pct = 10
    /\ trades[2].trade_status = "OPEN"

C6_OpenExcluded ==
    EquityDone /\ Len(trades) > 0 /\ performance # NULL =>
        LET IsClosed(t) == t.trade_status # "OPEN"
            closed == SelectSeq(trades, IsClosed)
        IN  /\ equityCurve =
                  IF closed = <<>>
                  THEN <<[time |-> "Start", pnl |-> Zero,
                          balance |-> Num(performance.current_balance
                                             - performance.total_pnl)]>>
                  ELSE computeEquityCurve(closed, performance)
            /\ C6_Scenario =>
                  /\ Len(equityCurve) = 2
                  /\ equityCurve[1].time = "Start"
                  /\ equityCurve[1].balance = Num(10000)
                  /\ equityCurve[1].pnl = Num(0)
                  /\ equityCurve[2].time = "Trade 1"
                  /\ equityCurve[2].balance = Num(11000)
                  /\ equityCurve[2].pnl = Num(1000)

C6_Witness == EquityDone /\ C6_Scenario /\ Len(equityCurve) = 2

(* C21: the points after Start are labelled "Trade 1", "Trade 2", ... in the
   order of the replay, whatever the trades' positions in the input list, and
   the N-th of them carries the symbol and side of the N-th replayed trade. *)
C21_OrdinalLabels ==
    EquityDone =>
        \A k \in DOMAIN equityCurve :
            IF k = 1 THEN equityCurve[k].time = "Start"
            ELSE /\ equityCurve[k].time = "Trade " \o ToString(k - 1)
                 /\ equityCurve[k].symbol = closedTrades[k - 1].symbol
                 /\ equityCurve[k].side = closedTrades[k - 1].side

(* The first replayed trade is the third of the input, behind an OPEN trade
   and a later trade of the other market. *)
C21_Witness ==
    /\ EquityDone
    /\ Len(equityCurve) = 3
    /\ trades[1].trade_status = "OPEN"
    /\ closedTrades[1].trade_id = 3
    /\ closedTrades[2].trade_id = 2
    /\ equityCurve[2].time = "Trade 1"
    /\ equityCurve[2].symbol # equityCurve[3].symbol

-----------------------------------------------------------------------------
(* Properties of symbolPerformance, under SpecSymbol *)

SymbolDone == "symbolPerformance" \in computed

(* The non-OPEN trades of a symbol, by position. *)
ClosedOf(symbol) ==
    {i \in DOMAIN trades :
        trades[i].symbol = symbol /\ trades[i].trade_status # "OPEN"}

(* The sum of actual_return_pct over the trades at the positions S, a
   missing value counted as 0. *)
RECURSIVE SumReturns(_)
SumReturns(S) ==
    IF S = {} THEN 0
    ELSE LET i == CHOOSE j \in S : TRUE
             r == IF Has(trades[i], "actual_return_pct")
                  THEN trades[i].actual_return_pct ELSE 0
         IN  r + SumReturns(S \ {i})

(* C7: every SymbolStat with total > 0 has winRate = wins / total * 100, and
   winRate = 0 when total = 0; one CLOSED_WIN of 5 and one CLOSED_LOSS of -3
   on one symbol give wins 1, losses 1, total 2, winRate 50, totalPnL 2. *)
C7_WinRate ==
    SymbolDone =>
        \A i \in DOMAIN symbolPerformance :
            LET stat == symbolPerformance[i]
            IN  /\ stat.total > 0 =>
                      RatMul(stat.winRate, Num(stat.total)) = Num(stat.wins * 100)
                /\ stat.total = 0 => stat.winRate = Zero

(* C8: every SymbolStat has wins + losses = total and a winRate in [0, 100],
   which is 0 when total = 0. *)
C8_StatInvariant ==
    SymbolDone =>
        \A i \in DOMAIN symbolPerformance :
            LET stat == symbolPerformance[i]
            IN  /\ stat.wins + stat.losses = stat.total
                /\ RatLe(Zero, stat.winRate)
                /\ RatLe(stat.winRate, Num(100))
                /\ stat.total = 0 => stat.winRate = Zero

C8_Witness ==
    /\ SymbolDone
    /\ \E i \in DOMAIN symbolPerformance :
          /\ symbolPerformance[i].wins = 2
          /\ symbolPerformance[i].losses = 1
          /\ symbolPerformance[i].total = 3

(* C9: there is exactly one SymbolStat for each symbol that has a trade that
   is not OPEN and none for any other symbol; its wins are that symbol's
   CLOSED_WIN trades, its losses that symbol's other non-OPEN trades, and
   its totalPnL the sum of their actual_return_pct, a missing one as 0. *)
C9_PerSymbol ==
    SymbolDone =>
        /\ {symbolPerformance[i].symbol : i \in DOMAIN symbolPerformance}
              = {trades[i].symbol : i \in {j \in DOMAIN trades :
                                              trades[j].trade_status # "OPEN"}}
        /\ \A i, j \in DOMAIN symbolPerformance :
              symbolPerformance[i].symbol = symbolPerformance[j].symbol => i = j
        /\ \A i \in DOMAIN symbolPerformance :
              LET stat == symbolPerformance[i]
                  own == ClosedOf(stat.symbol)
                  won == {k \in own : trades[k].trade_status = "CLOSED_WIN"}
              IN  /\ stat.wins = Cardinality(won)
                  /\ stat.losses = Cardinality(own \ won)
                  /\ stat.totalPnL = SumReturns(own)

(* A symbol with only OPEN trades beside one with a win, a loss and a trade
   without a realized return. *)
C9_Witness ==
    /\ SymbolDone
    /\ Len(trades) = 3
    /\ Len(symbolPerformance) = 1
    /\ \E i \in DOMAIN trades :
          /\ trades[i].trade_status = "OPEN"
          /\ trades[i].symbol # symbolPerformance[1].symbol
    /\ symbolPerformance[1].wins = 1
    /\ symbolPerformance[1].losses = 1
    /\ symbolPerformance[1].totalPnL = 5

-----------------------------------------------------------------------------
(* Properties of dailyPnL, under SpecDaily *)

DailyDone == "dailyPnL" \in computed

(* The trades that are not OPEN and have an exit timestamp, by position. *)
IncludedPositions ==
    {i \in DOMAIN trades :
        /\ trades[i].trade_status # "OPEN"
        /\ Has(trades[i], "exit_timestamp")}

DayOf(i) == ToDateString(trades[i].exit_timestamp, timeZone)

(* C10: a trade is included exactly when it is not OPEN and has an exit
   timestamp: the days of the output are the days of those trades, and each
   day's sum is the sum over those trades alone. *)
C10_Included ==
    DailyDone =>
        /\ {dailyPnL[k].date : k \in DOMAIN dailyPnL}
              = {DayOf(i) : i \in IncludedPositions}
        /\ \A k \in DOMAIN dailyPnL :
              dailyPnL[k].pnl
                 = SumReturns({i \in IncludedPositions : DayOf(i) = dailyPnL[k].date})

(* An OPEN record with exit data, a closed trade without an exit timestamp
   and an included trade together. *)
C10_Witness ==
    /\ DailyDone
    /\ Len(dailyPnL) = 1
    /\ dailyPnL[1].pnl = -3
    /\ \E i \in DOMAIN trades :
          /\ trades[i].trade_status = "OPEN"
          /\ Has(trades[i], "exit_timestamp")
          /\ Has(trades[i], "actual_return_pct")
    /\ \E i \in DOMAIN trades :
          /\ trades[i].trade_status = "CLOSED_WIN"
          /\ ~Has(trades[i], "exit_timestamp")
          /\ Has(trades[i], "actual_return_pct")

(* The day a day key names, counted from 2024-01-31. *)
DayNumber(name) == CHOOSE d \in -1..2 : DayName(d) = name

(* C11: the output of dailyPnL is in ascending order of the calendar day its
   keys name, not of the key strings. *)
C11_SortedByDay ==
    DailyDone =>
        \A k, l \in DOMAIN dailyPnL :
            k < l => DayNumber(dailyPnL[k].date) <= DayNumber(dailyPnL[l].date)

(* Two days whose keys sort the other way as strings, the later day first in
   the input. *)
C11_Witness ==
    /\ DailyDone
    /\ Len(dailyPnL) = 2
    /\ dailyPnL[1].date = "Wed Jan 31 2024"
    /\ dailyPnL[2].date = "Thu Feb 01 2024"
    /\ \E i \in IncludedPositions :
          /\ DayOf(i) = "Thu Feb 01 2024"
          /\ \A j \in IncludedPositions : i <= j

RECURSIVE SumPnl(_)
SumPnl(days) ==
    IF days = <<>> THEN 0
    ELSE days[Len(days)].pnl + SumPnl(SubSeq(days, 1, Len(days) - 1))

(* C12: a day has at most one entry, an entry's pnl is the sum of
   actual_return_pct (a missing one as 0) over the included trades that exit
   on its day, and the entries' pnl add up to the sum over all included
   trades. *)
C12_DailySums ==
    DailyDone =>
        /\ \A k, l \in DOMAIN dailyPnL :
              dailyPnL[k].date = dailyPnL[l].date => k = l
        /\ \A k \in DOMAIN dailyPnL :
              /\ \E i \in IncludedPositions : DayOf(i) = dailyPnL[k].date
              /\ dailyPnL[k].pnl
                    = SumReturns({i \in IncludedPositions :
                                     DayOf(i) = dailyPnL[k].date})
        /\ SumPnl(dailyPnL) = SumReturns(IncludedPositions)

(* Three included trades on two days: a win and a loss on one, a trade
   without a realized return on the other. *)
C12_Witness ==
    /\ DailyDone
    /\ Cardinality(IncludedPositions) = 3
    /\ Len(dailyPnL) = 2
    /\ \E k \in DOMAIN dailyPnL : dailyPnL[k].pnl = 2
    /\ \E k \in DOMAIN dailyPnL : dailyPnL[k].pnl = 0
    /\ \E i \in IncludedPositions : ~Has(trades[i], "actual_return_pct")

-----------------------------------------------------------------------------
(* Properties of the whole component, under Spec *)

PositionsOf(statuses) == {i \in DOMAIN trades : trades[i].trade_status \in statuses}

(* Positions of the trades that are not OPEN and of a status outside
   CLOSED_WIN and CLOSED_LOSS. *)
OtherPositions ==
    {i \in DOMAIN trades :
        trades[i].trade_status \notin {"OPEN", "CLOSED_WIN", "CLOSED_LOSS"}}

(* C13: the Wins count is the number of CLOSED_WIN trades, the Losses count
   the number of CLOSED_LOSS trades, and together they are the number of
   trades that are CLOSED_WIN or CLOSED_LOSS. *)
C13_DistributionCounts ==
    Rendered =>
        /\ Len(roeDistribution) = 2
        /\ roeDistribution[1].name = "Wins"
        /\ roeDistribution[1].value = Cardinality(PositionsOf({"CLOSED_WIN"}))
        /\ roeDistribution[2].name = "Losses"
        /\ roeDistribution[2].value = Cardinality(PositionsOf({"CLOSED_LOSS"}))
        /\ roeDistribution[1].value + roeDistribution[2].value
              = Cardinality(PositionsOf({"CLOSED_WIN", "CLOSED_LOSS"}))

C13_Witness ==
    /\ Rendered
    /\ roeDistribution[1].value = 1
    /\ roeDistribution[2].value = 1
    /\ OtherPositions # {}

RECURSIVE SumField(_, _)
SumField(stats, field) ==
    IF stats = <<>> THEN 0
    ELSE stats[Len(stats)][field] + SumField(SubSeq(stats, 1, Len(stats) - 1), field)

(* C14 as claimed: a trade that is not OPEN and neither CLOSED_WIN nor
   CLOSED_LOSS is counted neither as a win nor as a loss, in the distribution
   and in the per-symbol statistics. *)
C14_IgnoredEverywhere ==
    Rendered =>
        /\ roeDistribution[1].value + roeDistribution[2].value
              = Cardinality(PositionsOf({"CLOSED_WIN", "CLOSED_LOSS"}))
        /\ SumField(symbolPerformance, "wins") + SumField(symbolPerformance, "losses")
              = Cardinality(PositionsOf({"CLOSED_WIN", "CLOSED_LOSS"}))

(* C14 as amended: the distribution ignores such a trade (its counts are
   those of the list without it), while the per-symbol statistics count it
   as a loss of its symbol. *)
C14_IgnoredByDistribution ==
    Rendered =>
        LET Expected(t) == t.trade_status \in {"OPEN", "CLOSED_WIN", "CLOSED_LOSS"}
        IN  /\ roeDistribution = computeDistribution(SelectSeq(trades, Expected))
            /\ roeDistribution[1].value + roeDistribution[2].value
                  = Cardinality(DOMAIN trades) - Cardinality(OtherPositions)
                       - Cardinality(PositionsOf({"OPEN"}))
            /\ SumField(symbolPerformance, "wins")
                  = Cardinality(PositionsOf({"CLOSED_WIN"}))
            /\ SumField(symbolPerformance, "losses")
                  = Cardinality(PositionsOf({"CLOSED_LOSS"}))
                       + Cardinality(OtherPositions)

C14_Witness ==
    /\ Rendered
    /\ Cardinality(OtherPositions) = 1
    /\ Cardinality(PositionsOf({"CLOSED_WIN"})) = 1
    /\ Cardinality(PositionsOf({"CLOSED_LOSS"})) = 1
    /\ roeDistribution[2].value = 1
    /\ SumField(symbolPerformance, "losses") = 2

(* C15: with an empty trade list and a performance snapshot, the equity
   curve, the per-symbol statistics and the daily series are empty and the
   distribution counts no win and no loss. *)
C15_EmptyTrades ==
    Rendered /\ Len(trades) = 0 /\ performance # NULL =>
        /\ equityCurve = <<>>
        /\ symbolPerformance = <<>>
        /\ dailyPnL = <<>>
        /\ roeDistribution[1].value = 0
        /\ roeDistribution[2].value = 0

C15_Witness ==
    /\ Rendered
    /\ Len(trades) = 0
    /\ performance = [current_balance |-> 11000, total_pnl |-> 1000]
    /\ Len(roeDistribution) = 2

(* C17: no step of the component changes its inputs: the trade list keeps
   its elements, their order and their fields, and the performance snapshot
   keeps its value (the sort by timestamp works on the filtered copy). *)
C17_InputsUnchanged ==
    [][trades' = trades /\ performance' = performance]_vars

(* The sort had to reorder: a later trade of the input is replayed first,
   and the input is still in its order. *)
C17_Witness ==
    /\ Rendered
    /\ Len(closedTrades) >= 2
    /\ closedTrades[1].trade_id > closedTrades[2].trade_id
    /\ \A i \in DOMAIN trades : trades[i].trade_id = i

(* C25: on trades that are OPEN, CLOSED_WIN or CLOSED_LOSS the views agree:
   the wins of all symbols add up to the Wins count, the losses to the Losses
   count, and the totals to the number of trades that are not OPEN, which is
   the number of points after Start when the equity curve is not empty. *)
C25_ViewsAgree ==
    Rendered /\ OtherPositions = {} =>
        /\ SumField(symbolPerformance, "wins") = roeDistribution[1].value
        /\ SumField(symbolPerformance, "losses") = roeDistribution[2].value
        /\ SumField(symbolPerformance, "total")
              = Cardinality(PositionsOf({"CLOSED_WIN", "CLOSED_LOSS"}))
        /\ equityCurve # <<>> =>
              SumField(symbolPerformance, "total") = Len(equityCurve) - 1

(* An OPEN trade, a win and a loss on two markets. *)
C25_Witness ==
    /\ Rendered
    /\ OtherPositions = {}
    /\ PositionsOf({"OPEN"}) # {}
    /\ Len(symbolPerformance) = 2
    /\ roeDistribution[1].value = 1
    /\ roeDistribution[2].value = 1
    /\ Len(equityCurve) = 3

-----------------------------------------------------------------------------
(* Properties of the date-ordered views on unparsable timestamps, under
   SpecMalformed *)

WellFormedClosed ==
    {i \in DOMAIN trades :
        trades[i].trade_status # "OPEN" /\ ParsesAsDate(trades[i].timestamp)}

WellFormedExits ==
    {i \in IncludedPositions : ParsesAsDate(trades[i].exit_timestamp)}

(* C18: a record whose timestamp does not parse gives no point of the equity
   curve, and one whose exit timestamp does not parse gives no daily entry
   and adds to none; the well-formed records give theirs. *)
C18_MalformedExcluded ==
    /\ EquityDone /\ Len(trades) > 0 /\ performance # NULL =>
           Len(equityCurve) = 1 + Cardinality(WellFormedClosed)
    /\ DailyDone =>
           /\ {dailyPnL[k].date : k \in DOMAIN dailyPnL}
                 = {DayOf(i) : i \in WellFormedExits}
           /\ \A k \in DOMAIN dailyPnL :
                 dailyPnL[k].pnl =
                     SumReturns({i \in WellFormedExits : DayOf(i) = dailyPnL[k].date})

-----------------------------------------------------------------------------
(* Properties of equityCurve on returns that are not numbers, under
   SpecInvalid *)

IsNumber(x) == x.d # 0

(* C19: the computation returns a result whatever the records hold, and an
   actual_return_pct that is missing or is not a number adds 0: every balance
   and pnl of the curve is a number, and the point of such a trade has pnl 0
   and the balance of the point before it. *)
C19_DegradesToZero ==
    EquityDone =>
        /\ \A k \in DOMAIN equityCurve :
              IsNumber(equityCurve[k].balance) /\ IsNumber(equityCurve[k].pnl)
        /\ \A k \in DOMAIN closedTrades :
              \/ /\ Has(closedTrades[k], "actual_return_pct")
                 /\ ~NonNumeric(closedTrades[k], "actual_return_pct")
              \/ /\ equityCurve[k + 1].pnl = Zero
                 /\ equityCurve[k + 1].balance = equityCurve[k].balance

-----------------------------------------------------------------------------
(* Properties of the polled component, under SpecRefresh *)

(* The props are those of the first render again. *)
PropsOfFirstRender ==
    /\ Rendered
    /\ trades = firstRender.trades
    /\ performance = firstRender.performance

(* C16: an evaluation on the props of an earlier evaluation gives the views
   of the earlier one, in length, order and fields, whatever was evaluated
   in between. *)
C16_Reproducible ==
    PropsOfFirstRender =>
        /\ equityCurve = firstRender.equityCurve
        /\ symbolPerformance = firstRender.symbolPerformance
        /\ dailyPnL = firstRender.dailyPnL
        /\ roeDistribution = firstRender.roeDistribution

(* Two trades that the sort reorders were evaluated, then other props, then
   the two trades again. *)
C16_Witness ==
    /\ PropsOfFirstRender
    /\ firstRender.others
    /\ performance # NULL
    /\ Len(equityCurve) = 3
    /\ closedTrades[1].trade_id = 2
    /\ Len(symbolPerformance) = 2
    /\ Len(dailyPnL) = 2

(* C20: whatever props the polls have put in place, each view the component
   holds is the one a computation from the current props gives. *)
C20_NeverStale ==
    Rendered =>
        /\ equityCurve = computeEquityCurve(trades, performance)
        /\ symbolPerformance = computeSymbolPerformance(trades)
        /\ dailyPnL = computeDailyPnL(trades, timeZone)
        /\ roeDistribution = computeDistribution(trades)

(* The first render had no performance snapshot and an empty equity curve;
   a poll has put a snapshot in place beside the same trades, and the curve
   has its points. *)
C20_Witness ==
    /\ Rendered
    /\ firstRender.others
    /\ trades = firstRender.trades
    /\ firstRender.performance = NULL
    /\ firstRender.equityCurve = <<>>
    /\ performance # NULL
    /\ Len(trades) = 2
    /\ Len(equityCurve) = 3
    /\ symbolPerformance = firstRender.symbolPerformance

-----------------------------------------------------------------------------
(* Properties of the Index page, under SpecIndex *)

(* C22: a response to the periodic poll that lists the trader the user has
   selected leaves the selection as it is. *)
C22_SelectionKept ==
    [][/\ lastEvent' = "poll loaded"
       /\ selectedBy = "user"
       /\ Find(traders', selectedTrader)
       => selectedTrader' = selectedTrader]_vars

(* C24: when a refresh has completed, selectedTrader is null or the id of a
   trader of the loaded list, and it is null only when that list is empty. *)
C24_SelectionListed ==
    lastEvent \in {"mount loaded", "poll loaded", "created loaded",
                   "deleted loaded"} =>
        /\ selectedTrader = NoTrader \/ Find(traders, selectedTrader)
        /\ selectedTrader = NoTrader => traders = <<>>

-----------------------------------------------------------------------------
(* Properties of the CreateTrader dialog, under SpecCreateTrader *)

(* C26: createTrader is called only with a configuration whose trimmed name
   is not empty and whose symbol list has an element; a submit that is
   rejected leaves the dialog open, the configuration as it was and loading
   false, and calls nothing. *)
C26_ValidRequestsOnly ==
    [][/\ \A sent \in pendingCreate' \ pendingCreate :
             Trim(sent.name) # "" /\ Len(sent.symbols) >= 1
       /\ createEvent' = "rejected" =>
             /\ open /\ open'
             /\ config' = config
             /\ ~createLoading'
             /\ pendingCreate' = pendingCreate]_vars

(* A submit with a name of white space only was rejected. *)
C26_Witness ==
    /\ createEvent = "rejected"
    /\ config.name = "  "
    /\ Len(config.symbols) = 3
    /\ open
    /\ ~createLoading
    /\ pendingCreate = {}

NoDuplicates(array) ==
    \A i, j \in DOMAIN array : array[i] = array[j] => i = j

PresentIgnoringCase(array, typed) ==
    \E i \in DOMAIN array : ToUpperCase(array[i]) = ToUpperCase(Trim(typed))

(* C27: the symbol list never holds an entry twice; addSymbol appends the
   trimmed, upper-cased input, and leaves the list as it is when the input is
   blank or is in the list already, whatever its case. *)
C27_SymbolList ==
    [][/\ NoDuplicates(config'.symbols)
       /\ createEvent' = "addSymbol" =>
             IF Trim(newSymbol) = "" \/ PresentIgnoringCase(config.symbols, newSymbol)
             THEN config'.symbols = config.symbols
             ELSE config'.symbols
                     = Append(config.symbols, ToUpperCase(Trim(newSymbol)))]_vars

(* SOLUSDT was added from a typed symbol in lower case, and the add of
   " btcusdt " after it changed nothing. *)
C27_Witness ==
    /\ createEvent = "addSymbol"
    /\ newSymbol = " btcusdt "
    /\ config.symbols = <<"BTCUSDT", "ETHUSDT", "SOLUSDT">>

(* C28: a submit whose request succeeds closes the dialog, calls
   onTraderCreated once and resets name and symbols; one whose request fails
   leaves the dialog and the configuration as they are and calls nothing;
   either way loading ends false, and nothing else calls onTraderCreated. *)
C28_SubmitOutcome ==
    [][/\ createEvent' = "succeeded" =>
             /\ ~open'
             /\ notified' = 1
             /\ config'.name = ""
             /\ config'.symbols = DefaultSymbols
             /\ ~createLoading'
       /\ createEvent' = "failed" =>
             /\ open' = open
             /\ notified' = 0
             /\ config' = config
             /\ ~createLoading'
       /\ notified' = 1 => createEvent' = "succeeded"]_vars

(* A request sent with three symbols has succeeded. *)
C28_Witness ==
    /\ createEvent = "succeeded"
    /\ notified = 1
    /\ ~open
    /\ ~createLoading
    /\ config.name = ""
    /\ config.symbols = DefaultSymbols
    /\ newSymbol = "solusdt"


-----------------------------------------------------------------------------
(* Claims about TraderDashboard, under SpecDashboard. *)

(* C23: once data requested for the current traderId has been applied, the
   data on display is never replaced by the data requested for a traderId
   that was selected before: isRunning, trades and performance are those of
   a response requested for the current traderId. *)
C23_CurrentTraderData ==
    (Mounted /\ appliedCurrent) => dataOf = traderId


(* A Start/Stop attempt is under way: its call, or the loadTraderData that
   follows it, awaits its response. *)
AttemptInProgress ==
    \/ pendingStartStop # {}
    \/ \E request \in dataRequests : request.origin = "startStop"

(* C29: a Start/Stop attempt calls stopTrader when the isRunning on display
   is true and startTrader otherwise; loading is true while the attempt is
   under way and false once it is over, whether the call or the refresh
   after it succeeded or failed; and when the call fails, isRunning, trades
   and performance stay as they were. *)
C29_StartStopAttempt ==
    [][/\ dashboardEvent' = "handleStartStop" =>
            pendingStartStop' =
                {[traderId |-> traderId,
                  call |-> IF isRunning THEN "stopTrader" ELSE "startTrader"]}
       /\ Mounted' => (dashboardLoading' <=> AttemptInProgress')
       /\ dashboardEvent' \in {"call failed", "startStop loaded",
                               "startStop failed"} =>
            ~AttemptInProgress'
       /\ dashboardEvent' = "call failed" =>
            UNCHANGED <<isRunning, trades, performance>>]_vars

(* C29 witness: a stopTrader call has failed on a dashboard that shows a
   running trader with a trade, and loading is false again. *)
C29_Witness ==
    /\ Mounted
    /\ dashboardEvent = "call failed"
    /\ isRunning
    /\ trades # <<>>
    /\ ~dashboardLoading


(* The intervals that run are one for the current traderId and none for
   another, and none at all once the dashboard is unmounted. *)
OneTimerForCurrent ==
    \A id \in DashboardTraders :
        timers[id] = (IF id = traderId THEN 1 ELSE 0)

(* C30: TraderDashboard polls only the current trader: once traderId has
   changed or the dashboard is unmounted, the interval of the traderId
   before is cleared and no request for it is issued any more, while one
   interval runs for the current traderId. *)
C30_OnlyCurrentTrader ==
    [][/\ OneTimerForCurrent'
       /\ \A request \in dataRequests' \ dataRequests :
            Mounted' /\ request.traderId = traderId']_vars

====
